---- MODULE Spec2Model ----
(***************************************************************************)
(* Process-management syscalls of os/src/syscall/process.rs:               *)
(* sys_exit, sys_yield, sys_get_time, sys_task_info, sys_mmap, sys_munmap  *)
(* and sys_sbrk, run by one task, each handler to completion.              *)
(*                                                                         *)
(* The address space is scaled down: a machine word holds the addresses    *)
(* 0 .. Word-1, a page is PAGE_SIZE bytes, a usize in memory is            *)
(* USIZE_BYTES bytes.  The services the handlers call that live in other   *)
(* files of the kernel (mm, task, timer) are modelled from their           *)
(* documented contracts.                                                   *)
(***************************************************************************)
EXTENDS Integers, Sequences, FiniteSets, TLC

\* ---------------------------------------------------------------- bounds
PAGE_SIZE == 16
NumPages == 4
MaxCalls == 3
PortMax == 8
HeapPages == 1
MAX_SYSCALL_NUM == 1

Word == NumPages * PAGE_SIZE
Pages == 0 .. NumPages - 1
Addrs == 0 .. Word - 1

\* ------------------------------------------------------ program constants
USIZE_BYTES == 8
U32_BYTES == 4
MICRO_PER_SEC == 1000000
USEC_PER_MSEC == 1000
Running == 2

\* ------------------------------------------------------------ input sets
Starts == {PAGE_SIZE, PAGE_SIZE + 1, 2 * PAGE_SIZE}
Lens == {0, 1, PAGE_SIZE, 2 * PAGE_SIZE, Word - 1}
PortSample == {0, 3, 4, PortMax}
AllPorts == 0 .. PortMax
ClockSample == {999999, 1000000, 2000001}
PtrSample == {PAGE_SIZE, 2 * PAGE_SIZE - 3, 2 * PAGE_SIZE - 11}
BrkDeltas == {-1, 0, PAGE_SIZE}

\* --------------------------------------------------------- MapPermission
Flags == {"U", "R", "W", "X"}
NotMapped == {}

\* ------------------------------------------------------------- VirtAddr
aligned(a) == a % PAGE_SIZE = 0
floor(a) == a \div PAGE_SIZE
ceil(a) == (a + PAGE_SIZE - 1) \div PAGE_SIZE

\* pages of the half-open page range [floor(s), ceil(e))
VPNRange(s, e) == {p \in Pages : floor(s) <= p /\ p < ceil(e)}

\* ------------------------------------------------------ Mapping Validator
\* unmap = FALSE: every covered page is absent; unmap = TRUE: every one present
task_check_map(ms, s, e, unmap) ==
    IF unmap
    THEN \A p \in VPNRange(s, e) : ms[p] # NotMapped
    ELSE \A p \in VPNRange(s, e) : ms[p] = NotMapped

\* -------------------------------------------------------- Mapping Mutator
task_mmap(ms, s, e, perm) ==
    [p \in Pages |-> IF p \in VPNRange(s, e) THEN perm ELSE ms[p]]

task_unmap(ms, s, e) ==
    [p \in Pages |-> IF p \in VPNRange(s, e) THEN NotMapped ELSE ms[p]]

\* one entry of the record of the services a handler called, in order
Ev(fn, s, e, res, ms) == [fn |-> fn, s |-> s, e |-> e, res |-> res, ms |-> ms]

\* ----------------------------------------------------------- bit tests
Low3(port) == port % 8
High(port) == port \div 8
Bit(port, k) == (port \div (2 ^ k)) % 2

PortValid(port) == ~(High(port) # 0 \/ Low3(port) = 0)

PortPermission(port) ==
    {"U"} \cup (IF Bit(port, 0) # 0 THEN {"R"} ELSE {})
          \cup (IF Bit(port, 1) # 0 THEN {"W"} ELSE {})
          \cup (IF Bit(port, 2) # 0 THEN {"X"} ELSE {})

\* start + len on a machine word: aborts when overflow checks are compiled
\* in, wraps otherwise
Overflows(start, len) == start + len >= Word
WrapAdd(start, len) == (start + len) % Word

Result(outcome, r, ms, cs, e) ==
    [outcome |-> outcome, ret |-> r, mapped |-> ms, calls |-> cs, v_end |-> e]

\* sys_mmap that maps the free pages of the range before it reports a conflict
sys_mmap_partial(start, len, port, ms, oc) ==
    IF Overflows(start, len) /\ oc
    THEN Result("panic", 0, ms, <<>>, 0)
    ELSE LET v_end == WrapAdd(start, len)
             free == {p \in VPNRange(start, v_end) : ms[p] = NotMapped}
             filled == [p \in Pages |-> IF p \in free THEN PortPermission(port)
                                        ELSE ms[p]]
         IN  IF ~aligned(start) \/ ~PortValid(port) THEN Result("ret", -1, ms, <<>>, v_end)
             ELSE IF ~task_check_map(ms, start, v_end, FALSE)
                  THEN Result("ret", -1, filled, <<>>, v_end)
                  ELSE Result("ret", 0, filled, <<>>, v_end)

\* sys_mmap without the create-mode check
sys_mmap_nocheck(start, len, port, ms, oc) ==
    IF Overflows(start, len) /\ oc
    THEN Result("panic", 0, ms, <<>>, 0)
    ELSE LET v_end == WrapAdd(start, len)
         IN  IF ~aligned(start) \/ ~PortValid(port) THEN Result("ret", -1, ms, <<>>, v_end)
             ELSE Result("ret", 0,
                         task_mmap(ms, start, v_end, PortPermission(port)), <<>>, v_end)

\* ------------------------------------------------------------- sys_mmap
sys_mmap(start, len, port, ms, oc) ==
    IF Overflows(start, len) /\ oc
    THEN Result("panic", 0, ms, <<>>, 0)
    ELSE LET v_start == start
             v_end == WrapAdd(start, len)
             c1 == <<Ev("aligned", v_start, v_start, aligned(v_start), ms)>>
             c2 == Append(c1, Ev("port", port, port, PortValid(port), ms))
             ok == task_check_map(ms, v_start, v_end, FALSE)
             c3 == Append(c2, Ev("check_create", v_start, v_end, ok, ms))
             c4 == Append(c3, Ev("task_mmap", v_start, v_end, TRUE, ms))
         IN  IF ~aligned(v_start) THEN Result("ret", -1, ms, c1, v_end)
             ELSE IF ~PortValid(port) THEN Result("ret", -1, ms, c2, v_end)
             ELSE IF ~ok THEN Result("ret", -1, ms, c3, v_end)
             ELSE Result("ret", 0,
                         task_mmap(ms, v_start, v_end, PortPermission(port)), c4, v_end)

\* sys_munmap without the destroy-mode check
sys_munmap_nocheck(start, len, ms, oc) ==
    IF Overflows(start, len) /\ oc
    THEN Result("panic", 0, ms, <<>>, 0)
    ELSE LET v_end == WrapAdd(start, len)
             c1 == <<Ev("aligned", start, start, aligned(start), ms)>>
             c3 == Append(c1, Ev("task_unmap", start, v_end, TRUE, ms))
         IN  IF ~aligned(start) THEN Result("ret", -1, ms, c1, v_end)
             ELSE Result("ret", 0, task_unmap(ms, start, v_end), c3, v_end)

\* sys_munmap that reports success for a range that is not fully mapped
sys_munmap_lenient(start, len, ms, oc) ==
    IF Overflows(start, len) /\ oc
    THEN Result("panic", 0, ms, <<>>, 0)
    ELSE LET v_end == WrapAdd(start, len)
         IN  IF ~aligned(start) THEN Result("ret", -1, ms, <<>>, v_end)
             ELSE IF ~task_check_map(ms, start, v_end, TRUE)
                  THEN Result("ret", 0, ms, <<>>, v_end)
                  ELSE Result("ret", 0, task_unmap(ms, start, v_end), <<>>, v_end)

\* sys_munmap that unmaps one page more than it checked
sys_munmap_extra_page(start, len, ms, oc) ==
    IF Overflows(start, len) /\ oc
    THEN Result("panic", 0, ms, <<>>, 0)
    ELSE LET v_end == WrapAdd(start, len)
         IN  IF ~aligned(start) THEN Result("ret", -1, ms, <<>>, v_end)
             ELSE IF ~task_check_map(ms, start, v_end, TRUE)
                  THEN Result("ret", -1, ms, <<>>, v_end)
                  ELSE Result("ret", 0, task_unmap(ms, start, v_end + PAGE_SIZE),
                              <<>>, v_end)

\* ----------------------------------------------------------- sys_munmap
sys_munmap(start, len, ms, oc) ==
    IF Overflows(start, len) /\ oc
    THEN Result("panic", 0, ms, <<>>, 0)
    ELSE LET v_start == start
             v_end == WrapAdd(start, len)
             c1 == <<Ev("aligned", v_start, v_start, aligned(v_start), ms)>>
             ok == task_check_map(ms, v_start, v_end, TRUE)
             c2 == Append(c1, Ev("check_destroy", v_start, v_end, ok, ms))
             c3 == Append(c2, Ev("task_unmap", v_start, v_end, TRUE, ms))
         IN  IF ~aligned(v_start) THEN Result("ret", -1, ms, c1, v_end)
             ELSE IF ~ok THEN Result("ret", -1, ms, c2, v_end)
             ELSE Result("ret", 0, task_unmap(ms, v_start, v_end), c3, v_end)

\* ----------------------------------------- kernel structures as bytes
\* little-endian bytes of v in a field of n bytes
RECURSIVE LE(_, _)
LE(v, n) == IF n = 0 THEN <<>> ELSE <<v % 256>> \o LE(v \div 256, n - 1)

\* #[repr(C)] TimeVal { sec: usize, usec: usize }
TIMEVAL_SIZE == 2 * USIZE_BYTES
\* TimeVal with the quotient and the remainder in each other's field
TimeVal_swapped(us) == [sec |-> us % MICRO_PER_SEC, usec |-> us \div MICRO_PER_SEC]

\* TimeVal whose usec is the whole clock value
TimeVal_rawusec(us) == [sec |-> us \div MICRO_PER_SEC, usec |-> us]

TimeVal(us) == [sec |-> us \div MICRO_PER_SEC, usec |-> us % MICRO_PER_SEC]
TimeValBytes(tv) == LE(tv.sec, USIZE_BYTES) \o LE(tv.usec, USIZE_BYTES)

\* TaskInfo { status, syscall_times: [u32; MAX_SYSCALL_NUM], time: usize },
\* fields in declaration order, status padded to the alignment of u32
RECURSIVE CounterBytes(_)
CounterBytes(cs) ==
    IF cs = <<>> THEN <<>> ELSE LE(Head(cs), U32_BYTES) \o CounterBytes(Tail(cs))

TASKINFO_SIZE == U32_BYTES + MAX_SYSCALL_NUM * U32_BYTES + USIZE_BYTES
TaskInfo(status, times, ms) == [status |-> status, syscall_times |-> times, time |-> ms]
TaskInfoBytes(ti) ==
    LE(ti.status, 1) \o LE(0, U32_BYTES - 1)
        \o CounterBytes(ti.syscall_times) \o LE(ti.time, USIZE_BYTES)

\* the calling task's counters: every syscall so far is counted in the first
get_task_syscall_times(n) == [i \in 1 .. MAX_SYSCALL_NUM |-> IF i = 1 THEN n ELSE 0]
get_task_status == Running

\* timer
get_time_us(clk) == clk
get_time_ms(clk) == clk \div USEC_PER_MSEC

\* ------------------------------------------------- Cross-Page Copy Engine
\* windows of [ptr, ptr + len), one per page, in address order
RECURSIVE SplitWindows(_, _)
SplitWindows(start, end) ==
    IF start >= end THEN <<>>
    ELSE LET page_end == (floor(start) + 1) * PAGE_SIZE
             stop == IF page_end < end THEN page_end ELSE end
         IN  <<[addr |-> start, len |-> stop - start]>> \o SplitWindows(stop, end)

ValidUserRange(ms, ptr, len) ==
    /\ ptr + len <= Word
    /\ \A p \in Pages : (floor(ptr) <= p /\ p < ceil(ptr + len)) => ms[p] # NotMapped

translated_byte_buffer(ms, ptr, len) ==
    IF ValidUserRange(ms, ptr, len) THEN SplitWindows(ptr, ptr + len) ELSE <<>>

\* buffer.copy_from_slice(slice) into the window at addr
WriteWindow(mem, addr, slice) ==
    [a \in Addrs |-> IF addr <= a /\ a < addr + Len(slice)
                     THEN slice[a - addr + 1] ELSE mem[a]]

\* the slice &k[begin..len] the loop takes for a window of len bytes
WindowSliceEnd(begin, len) == len

\* the copy loop of sys_get_time and sys_task_info, from window i on:
\*   k[begin..end] aborts when begin > end or end > k.len();
\*   copy_from_slice aborts when the two lengths differ
RECURSIVE CopyLoop(_, _, _, _, _)
CopyLoop(k, wins, i, begin, mem) ==
    IF i > Len(wins) THEN [outcome |-> "ret", umem |-> mem]
    ELSE LET len == wins[i].len
             end == WindowSliceEnd(begin, len)
         IN  IF begin > end \/ end > Len(k)
             THEN [outcome |-> "panic", umem |-> mem]
             ELSE LET slice == SubSeq(k, begin + 1, end)
                  IN  IF Len(slice) # len
                      THEN [outcome |-> "panic", umem |-> mem]
                      ELSE CopyLoop(k, wins, i + 1, begin + len,
                                    WriteWindow(mem, wins[i].addr, slice))

CopyResult(k, wins, r) ==
    [outcome |-> r.outcome, ret |-> 0, umem |-> r.umem, kbytes |-> k, windows |-> wins]

\* --------------------------------------------------------- sys_get_time
sys_get_time(ts, ms, mem, clk) ==
    LET us == get_time_us(clk)
        tv == TimeVal(us)
        k_ts == TimeValBytes(tv)
        u_ts == translated_byte_buffer(ms, ts, TIMEVAL_SIZE)
    IN  [tv |-> tv, copy |-> CopyResult(k_ts, u_ts, CopyLoop(k_ts, u_ts, 1, 0, mem))]

\* -------------------------------------------------------- sys_task_info
sys_task_info(ti, ms, mem, clk, times) ==
    LET k_ti == TaskInfoBytes(TaskInfo(get_task_status, times, get_time_ms(clk)))
        u_ti == translated_byte_buffer(ms, ti, TASKINFO_SIZE)
    IN  CopyResult(k_ti, u_ti, CopyLoop(k_ti, u_ti, 1, 0, mem))

\* ------------------------------------------------------------- sys_sbrk
\* the heap lies in the lower half of the address space
HeapBottom == 0
HeapTop == HeapPages * PAGE_SIZE

\* usize as isize
AsIsize(v) == IF v >= Word \div 2 THEN v - Word ELSE v

\* the new boundary must stay within [HeapBottom, HeapTop]
change_program_brk(brk, size) ==
    LET new_brk == brk + size
    IN  IF new_brk < HeapBottom \/ new_brk > HeapTop
        THEN [some |-> FALSE, old_brk |-> brk, brk |-> brk]
        ELSE [some |-> TRUE, old_brk |-> brk, brk |-> new_brk]

\* sys_sbrk that returns the boundary after the adjustment
sys_sbrk_new(size, brk) ==
    LET r == change_program_brk(brk, size)
    IN  IF r.some THEN [outcome |-> "ret", ret |-> AsIsize(r.brk), brk |-> r.brk]
        ELSE [outcome |-> "ret", ret |-> -1, brk |-> r.brk]

sys_sbrk(size, brk) ==
    LET r == change_program_brk(brk, size)
    IN  IF r.some THEN [outcome |-> "ret", ret |-> AsIsize(r.old_brk), brk |-> r.brk]
        ELSE [outcome |-> "ret", ret |-> -1, brk |-> r.brk]

\* ------------------------------------------------------------ sys_yield
sys_yield == [outcome |-> "ret", ret |-> 0]

\* ------------------------------------------------------------- sys_exit
\* exit_current_and_run_next() does not come back; if it did, the handler
\* panics
\* sys_exit that returns 0 when the termination path comes back
sys_exit_falls_through(returns) ==
    IF returns THEN [outcome |-> "ret", ret |-> 0]
    ELSE [outcome |-> "noreturn", ret |-> 0]

sys_exit(returns) ==
    IF returns THEN [outcome |-> "panic", ret |-> 0]
    ELSE [outcome |-> "noreturn", ret |-> 0]

VARIABLES
    overflow_checks,  \* whether the build aborts on arithmetic overflow
    mapped,           \* page -> permission set, NotMapped when absent
    program_brk,      \* data-segment boundary
    umem,             \* user memory, address -> byte
    clock,            \* microsecond clock at its last sample
    ncalls,           \* syscalls made so far
    op, arg_start, arg_len, arg_port,   \* the last syscall and its arguments
    outcome,          \* "ret" | "panic" | "noreturn"
    ret,              \* value returned when outcome = "ret"
    calls,            \* services the last handler called
    kbytes,           \* kernel-side bytes the last copy was given
    windows,          \* windows the last copy was given
    pre_mapped,       \* mapped-page set when the last syscall was entered
    pre_brk,          \* program_brk when the last syscall was entered
    prev_same,        \* the last syscall repeated (op, start, len) of the one before
    prev_ret,         \* value the syscall before the last one returned
    timeval,          \* TimeVal the last syscall built, NoTimeVal if it built none
    end_addr,         \* end address the last sys_mmap/sys_munmap computed, else 0
    after_mmap        \* the last syscall is a sys_munmap on the (start, len) of a
                      \* sys_mmap that returned 0 just before it

vars == <<overflow_checks, mapped, program_brk, umem, clock, ncalls, op,
          arg_start, arg_len, arg_port, outcome, ret, calls, kbytes, windows,
          pre_mapped, pre_brk, prev_same, prev_ret, timeval, end_addr,
          after_mmap>>

NoTimeVal == [sec |-> 0, usec |-> 0]

Init ==
    /\ overflow_checks \in BOOLEAN
    /\ mapped = [p \in Pages |-> NotMapped]
    /\ program_brk = HeapBottom
    /\ umem = [a \in Addrs |-> 0]
    /\ clock = 0
    /\ ncalls = 0
    /\ op = "init" /\ arg_start = 0 /\ arg_len = 0 /\ arg_port = 0
    /\ outcome = "ret" /\ ret = 0
    /\ calls = <<>> /\ kbytes = <<>> /\ windows = <<>>
    /\ pre_mapped = [p \in Pages |-> NotMapped]
    /\ pre_brk = HeapBottom
    /\ prev_same = FALSE /\ prev_ret = 0
    /\ timeval = NoTimeVal /\ end_addr = 0 /\ after_mmap = FALSE

CanCall == outcome = "ret" /\ ncalls < MaxCalls

\* bookkeeping common to every syscall
Enter(name, start, len, port) ==
    /\ op' = name /\ arg_start' = start /\ arg_len' = len /\ arg_port' = port
    /\ pre_mapped' = mapped /\ pre_brk' = program_brk
    /\ prev_same' = (op = name /\ arg_start = start /\ arg_len = len)
    /\ prev_ret' = ret
    /\ after_mmap' = (name = "munmap" /\ op = "mmap" /\ ret = 0
                        /\ arg_start = start /\ arg_len = len)
    /\ ncalls' = ncalls + 1
    /\ UNCHANGED overflow_checks

MapDone(r) ==
    /\ outcome' = r.outcome /\ ret' = r.ret
    /\ mapped' = r.mapped /\ calls' = r.calls /\ end_addr' = r.v_end
    /\ kbytes' = <<>> /\ windows' = <<>> /\ timeval' = NoTimeVal
    /\ UNCHANGED <<program_brk, umem, clock>>

CopyDone(r, t) ==
    /\ outcome' = r.outcome /\ ret' = r.ret
    /\ umem' = r.umem /\ kbytes' = r.kbytes /\ windows' = r.windows
    /\ clock' = t /\ calls' = <<>> /\ end_addr' = 0
    /\ UNCHANGED <<mapped, program_brk>>

SysMmap(P) ==
    /\ CanCall
    /\ \E start \in Starts, len \in Lens, port \in P :
          /\ Enter("mmap", start, len, port)
          /\ MapDone(sys_mmap(start, len, port, mapped, overflow_checks))

SysMunmap ==
    /\ CanCall
    /\ \E start \in Starts, len \in Lens :
          /\ Enter("munmap", start, len, 0)
          /\ MapDone(sys_munmap(start, len, mapped, overflow_checks))

SysGetTime ==
    /\ CanCall
    /\ \E ts \in PtrSample, t \in ClockSample :
          /\ t >= clock
          /\ LET r == sys_get_time(ts, mapped, umem, t)
             IN  /\ Enter("get_time", ts, TIMEVAL_SIZE, 0)
                 /\ CopyDone(r.copy, t)
                 /\ timeval' = r.tv

SysTaskInfo ==
    /\ CanCall
    /\ \E ti \in PtrSample, t \in ClockSample :
          /\ t >= clock
          /\ Enter("task_info", ti, TASKINFO_SIZE, 0)
          /\ CopyDone(sys_task_info(ti, mapped, umem, t,
                                   get_task_syscall_times(ncalls + 1)), t)
          /\ timeval' = NoTimeVal

SysSbrk ==
    /\ CanCall
    /\ \E size \in BrkDeltas :
          LET r == sys_sbrk(size, program_brk)
          IN  /\ Enter("sbrk", size, 0, 0)
              /\ outcome' = r.outcome /\ ret' = r.ret /\ program_brk' = r.brk
              /\ calls' = <<>> /\ kbytes' = <<>> /\ windows' = <<>>
              /\ timeval' = NoTimeVal /\ end_addr' = 0
              /\ UNCHANGED <<mapped, umem, clock>>

SysYield ==
    /\ CanCall
    /\ Enter("yield", 0, 0, 0)
    /\ outcome' = sys_yield.outcome /\ ret' = sys_yield.ret
    /\ calls' = <<>> /\ kbytes' = <<>> /\ windows' = <<>>
    /\ timeval' = NoTimeVal /\ end_addr' = 0
    /\ UNCHANGED <<mapped, program_brk, umem, clock>>

SysExit ==
    /\ CanCall
    /\ \E code \in {0}, returns \in BOOLEAN :
          LET r == sys_exit(returns)
          IN  /\ Enter("exit", code, 0, 0)
              /\ outcome' = r.outcome /\ ret' = r.ret
              /\ calls' = <<Ev("exit_current_and_run_next", 0, 0, returns, mapped)>>
              /\ kbytes' = <<>> /\ windows' = <<>>
              /\ timeval' = NoTimeVal /\ end_addr' = 0
              /\ UNCHANGED <<mapped, program_brk, umem, clock>>

Next ==
    \/ SysMmap(PortSample)
    \/ SysMunmap
    \/ SysGetTime
    \/ SysTaskInfo
    \/ SysSbrk
    \/ SysYield
    \/ SysExit

Spec == Init /\ [][Next]_vars

\* ------------------------------------------------------------ vocabulary
Returned(v) == outcome = "ret" /\ ret = v
IsCopy == op \in {"get_time", "task_info"}
IsMapped(ms, p) == ms[p] # NotMapped

\* the destination of the last copy lies in mapped pages
DstMapped == ValidUserRange(pre_mapped, arg_start, arg_len)

\* pages of [start, start + len) with the end not reduced modulo the word
CoveredPages(start, len) ==
    {p \in Pages : floor(start) <= p /\ p < ceil(start + len)}

\* pages of the range the handler itself computes from (start, len)
ComputedPages(start, len) == VPNRange(start, WrapAdd(start, len))

\* C1: sys_get_time and sys_task_info write the kernel structure's bytes
\* 0..size in order to [dst, dst+size), however the range is split into windows
C1_CopyWritesAllBytes ==
    (IsCopy /\ DstMapped) =>
        \A i \in 1 .. Len(kbytes) : umem[arg_start + i - 1] = kbytes[i]

\* C2: sys_get_time and sys_task_info run to completion and return 0 for every
\* destination whose pages are mapped, however the range is split
C2_CopyReturnsZero ==
    (IsCopy /\ DstMapped) => Returned(0)

\* C3: when sys_mmap, sys_munmap or sys_sbrk returns -1 the mapped-page set
\* and the data-segment boundary are what they were before the call
C3_FailureChangesNothing ==
    (op \in {"mmap", "munmap", "sbrk"} /\ Returned(-1)) =>
        (mapped = pre_mapped /\ program_brk = pre_brk)

\* a sys_mmap refused on a range of which some pages are mapped and some free
C3_Witness ==
    /\ op = "mmap" /\ Returned(-1)
    /\ aligned(arg_start) /\ PortValid(arg_port)
    /\ \E p, q \in ComputedPages(arg_start, arg_len) :
          IsMapped(pre_mapped, p) /\ ~IsMapped(pre_mapped, q)

C5_SecondMunmapFails ==
    (op = "munmap" /\ prev_same /\ prev_ret = 0) => Returned(-1)

\* C5 amended: a sys_munmap that repeats the (start, len) of a sys_munmap
\* that just returned 0 and unmapped at least one page returns -1
C5_SecondMunmapFailsNonEmpty ==
    (op = "munmap" /\ prev_same /\ prev_ret = 0
        /\ ComputedPages(arg_start, arg_len) # {}) => Returned(-1)

\* mmap(PAGE_SIZE, 2 pages), munmap, munmap: the third call has returned -1
C5_Witness ==
    /\ op = "munmap" /\ prev_same /\ prev_ret = 0
    /\ arg_start = PAGE_SIZE /\ arg_len = 2 * PAGE_SIZE
    /\ ncalls = 3 /\ Returned(-1)

\* C6: sys_mmap returns -1 whenever start is not page-aligned, for every len
\* and port
C6_MisalignedMmapFails ==
    (op = "mmap" /\ arg_start % PAGE_SIZE # 0) => Returned(-1)

\* C7: sys_mmap returns -1 when port has a bit at position 3 or above set or
\* none of bits 0-2 set, for every start and len
C7_BadPortMmapFails ==
    (op = "mmap" /\ (arg_port \div 8 # 0 \/ arg_port % 8 = 0)) => Returned(-1)

\* C8: sys_munmap returns -1 when start is not page-aligned or a page covered
\* by [start, start+len) is not mapped, and 0 otherwise
C8_MunmapResult ==
    op = "munmap" =>
        IF arg_start % PAGE_SIZE # 0
           \/ \E p \in CoveredPages(arg_start, arg_len) : ~IsMapped(pre_mapped, p)
        THEN Returned(-1)
        ELSE Returned(0)

\* C9: when sys_mmap returns 0 every page covered by [start, start+len) is
\* mapped with User plus Read, Write, Execute for port bits 0, 1, 2
C9_MmapInstallsPermission ==
    (op = "mmap" /\ Returned(0)) =>
        \A p \in CoveredPages(arg_start, arg_len) :
            mapped[p] = {"U"} \cup {f \in {"R", "W", "X"} :
                                      \/ f = "R" /\ arg_port % 2 = 1
                                      \/ f = "W" /\ (arg_port \div 2) % 2 = 1
                                      \/ f = "X" /\ (arg_port \div 4) % 2 = 1}

\* C10: task_mmap is called only after the alignment check, the port check
\* and a create-mode check that passed on the same range, task_unmap only
\* after the alignment check and a destroy-mode check that passed on the same
\* range, and the mapped-page set is the same at the check and at the mutation
C10_MutatorBehindGate ==
    \A i \in 1 .. Len(calls) :
        /\ calls[i].fn = "task_mmap" =>
              /\ i = 4
              /\ calls[1].fn = "aligned" /\ calls[1].res /\ calls[1].s = calls[i].s
              /\ calls[2].fn = "port" /\ calls[2].res
              /\ calls[3].fn = "check_create" /\ calls[3].res
              /\ calls[3].s = calls[i].s /\ calls[3].e = calls[i].e
              /\ calls[3].ms = calls[i].ms
        /\ calls[i].fn = "task_unmap" =>
              /\ i = 3
              /\ calls[1].fn = "aligned" /\ calls[1].res /\ calls[1].s = calls[i].s
              /\ calls[2].fn = "check_destroy" /\ calls[2].res
              /\ calls[2].s = calls[i].s /\ calls[2].e = calls[i].e
              /\ calls[2].ms = calls[i].ms

\* a sys_munmap that called task_unmap and removed pages an earlier sys_mmap
\* had installed through task_mmap
C10_Witness ==
    /\ op = "munmap" /\ Returned(0)
    /\ \E i \in 1 .. Len(calls) : calls[i].fn = "task_unmap"
    /\ mapped # pre_mapped

\* value of the n little-endian bytes of mem at addr
RECURSIVE FromLE(_, _, _)
FromLE(mem, addr, n) ==
    IF n = 0 THEN 0 ELSE mem[addr] + 256 * FromLE(mem, addr + 1, n - 1)

\* the TimeVal that user memory holds at ts
ReadTimeVal(mem, ts) ==
    [sec |-> FromLE(mem, ts, USIZE_BYTES),
     usec |-> FromLE(mem, ts + USIZE_BYTES, USIZE_BYTES)]

\* a.sec*1_000_000 + a.usec <= b.sec*1_000_000 + b.usec, compared on the whole
\* seconds and the remaining microseconds of the two sums
WholeSec(tv) == tv.sec + tv.usec \div 1000000
RestUsec(tv) == tv.usec % 1000000
TimeLeq(a, b) ==
    \/ WholeSec(a) < WholeSec(b)
    \/ WholeSec(a) = WholeSec(b) /\ RestUsec(a) <= RestUsec(b)

\* C11: of two sys_get_time calls in succession the second builds a (sec, usec)
\* pair that is not below the first under sec*1_000_000 + usec, and a call that
\* returns has written that pair at ts
C11_GetTimeMonotone ==
    [][(op = "get_time" /\ op' = "get_time") =>
          /\ TimeLeq(timeval, timeval')
          /\ (outcome' = "ret" /\ windows' # <<>>) =>
                ReadTimeVal(umem', arg_start') = timeval']_vars

\* the second of two sys_get_time calls on the same pointer has returned and
\* user memory holds the pair it built
C11_Witness ==
    /\ op = "get_time" /\ prev_same /\ Returned(0) /\ windows # <<>>
    /\ ReadTimeVal(umem, arg_start) = timeval
    /\ timeval.sec = 2 /\ timeval.usec = 1

\* C12: the TimeVal sys_get_time builds from the clock value us has
\* sec = us div 1_000_000 and usec = us mod 1_000_000, so 0 <= usec < 1_000_000
\* and sec*1_000_000 + usec = us
C12_TimeValSplit ==
    op = "get_time" =>
        /\ 0 <= timeval.usec /\ timeval.usec < 1000000
        /\ timeval.sec >= 0
        /\ timeval.sec * 1000000 + timeval.usec = clock

\* a sys_get_time at a clock value that is a whole number of seconds
C12_Witness ==
    op = "get_time" /\ clock = 1000000 /\ timeval.sec = 1 /\ timeval.usec = 0

\* the adjustment the last sys_sbrk asked for can be made
Satisfiable ==
    HeapBottom <= pre_brk + arg_start /\ pre_brk + arg_start <= HeapTop

\* C13 as stated: sys_sbrk returns the previous boundary, non-negative, when
\* the adjustment is satisfiable and -1 when not; it never returns the new
\* boundary, and -1 never stands for a successful adjustment
C13_SbrkReturnsOldNeverNew ==
    op = "sbrk" =>
        /\ Satisfiable => (Returned(pre_brk) /\ ret >= 0
                             /\ program_brk = pre_brk + arg_start)
        /\ ~Satisfiable => Returned(-1)
        /\ ret # program_brk
        /\ Returned(-1) => program_brk = pre_brk

\* C13 amended: as stated, except that the value returned differs from the new
\* boundary only when delta is not 0
C13_SbrkReturnsOld ==
    op = "sbrk" =>
        /\ Satisfiable => (Returned(pre_brk) /\ ret >= 0
                             /\ program_brk = pre_brk + arg_start)
        /\ ~Satisfiable => Returned(-1)
        /\ arg_start # 0 => ret # program_brk
        /\ Returned(-1) => program_brk = pre_brk

\* a sys_sbrk that moved a boundary above the heap bottom and returned the old one
C13_Witness ==
    /\ op = "sbrk" /\ pre_brk > HeapBottom /\ program_brk # pre_brk
    /\ Returned(pre_brk)

\* C14: sys_exit never returns a value: the task is gone when the termination
\* path keeps control, and the kernel panics when that path comes back
C14_ExitNeverReturns ==
    op = "exit" =>
        /\ outcome # "ret"
        /\ Len(calls) = 1 /\ calls[1].fn = "exit_current_and_run_next"
        /\ calls[1].res => outcome = "panic"
        /\ ~calls[1].res => outcome = "noreturn"

\* a sys_exit whose termination path came back
C14_Witness ==
    op = "exit" /\ Len(calls) = 1 /\ calls[1].res /\ outcome = "panic"

\* C15: for every start and len sys_mmap and sys_munmap compute the end
\* address start + len without wrap-around and without an arithmetic abort
C15_EndNeverOverflows ==
    op \in {"mmap", "munmap"} =>
        (outcome # "panic" /\ end_addr = arg_start + arg_len)

\* C16: a sys_munmap(start, len) right after a sys_mmap(start, len, port) that
\* returned 0 returns 0 and leaves the mapped-page set as it was before the
\* sys_mmap
C16_MmapMunmapRoundTrip ==
    [][(op = "mmap" /\ Returned(0) /\ op' = "munmap"
           /\ arg_start' = arg_start /\ arg_len' = arg_len) =>
          (outcome' = "ret" /\ ret' = 0 /\ mapped' = pre_mapped)]_vars

\* the sys_munmap of a round trip that removed the pages the sys_mmap installed
\* while another page stays mapped
C16_Witness ==
    /\ op = "munmap" /\ after_mmap /\ Returned(0)
    /\ mapped # pre_mapped
    /\ \E p \in Pages : IsMapped(mapped, p)

\* C17: a sys_mmap or sys_munmap that returns 0 leaves every page outside
\* [start, start+len) with its presence and permission, and sys_yield,
\* sys_get_time and sys_task_info leave the mapped-page set alone
C17_FrameOfMappedSet ==
    /\ (op \in {"mmap", "munmap"} /\ Returned(0)) =>
          \A p \in Pages \ CoveredPages(arg_start, arg_len) :
              mapped[p] = pre_mapped[p]
    /\ op \in {"yield", "get_time", "task_info"} => mapped = pre_mapped

\* a sys_munmap that removed pages while a mapped page outside its range stayed
C17_Witness ==
    /\ op = "munmap" /\ Returned(0) /\ mapped # pre_mapped
    /\ \E p \in Pages \ CoveredPages(arg_start, arg_len) : IsMapped(mapped, p)
====
